---- MODULE Spec2Model ----
(***************************************************************************)
(* A model of the WCS Survey Editor (src/app.py): the extraction of sales  *)
(* blocks from the text of a PDF, the annotation of the PDF by update_pdf, *)
(* the per-reference summary, and the per-file loop with its combined      *)
(* Excel export.                                                           *)
(*                                                                         *)
(* Four specifications share the module, one per part of the program:      *)
(*   SpecExtract  extract_sales_blocks, match by match                     *)
(*   SpecUpdate   update_pdf, section by section, row by row               *)
(*   SpecSummary  build_ref_summary                                        *)
(*   SpecRun      one run of the script over the uploaded PDFs             *)
(* The variables of the parts a specification does not run stay idle.      *)
(*                                                                         *)
(* Indices are 1-based here and 0-based in the Python source.              *)
(***************************************************************************)
EXTENDS Integers, Sequences, FiniteSets, TLC

VARIABLES
    \* extract_sales_blocks
    text,               \* lines of the concatenated page texts (text.splitlines())
    pos,                \* line at which pattern.finditer resumes scanning
    blocks,             \* the list being returned
    found,              \* history: for each block, where its match started and
                        \*          which line is its sales line
    pcE,
    \* update_pdf
    doc,                \* the pages of the PDF
    entries,            \* the rows of the edited table
    surveyor_name,
    aperture_positions, \* list of <<page_num, occurrence>>
    idx,                \* loop index of "Write each row"
    drawn,              \* calls of draw_text_with_colored_border that drew
    name_drawn,         \* surveyor-name insertions
    pcU,
    \* build_ref_summary
    df,
    summary,
    pcS,
    \* script run
    uploaded,
    fileno,
    used_names,
    per_file_data,
    pdf_results,
    workbook,
    pcR

varsE == <<text, pos, blocks, found, pcE>>
varsU == <<doc, entries, surveyor_name, aperture_positions, idx, drawn, name_drawn, pcU>>
varsS == <<df, summary, pcS>>
varsR == <<uploaded, fileno, used_names, per_file_data, pdf_results, workbook, pcR>>
vars == <<varsE, varsU, varsS, varsR>>

Min(a, b) == IF a < b THEN a ELSE b

Abs(a) == IF a < 0 THEN -a ELSE a

(***************************************************************************)
(* Bounds of the model.                                                    *)
(***************************************************************************)
MaxLines == 7

MaxLead == 2

(***************************************************************************)
(* Program constants.                                                      *)
(***************************************************************************)
\* range(start_idx, min(start_idx + 100, len(lines)))
Window == 100

(***************************************************************************)
(* extract_sales_blocks                                                    *)
(*                                                                         *)
(* The text is the concatenation of page.get_text("text") + "\n" over the  *)
(* pages, so every line of it ends in a newline.  A line is modelled by    *)
(* its content; the lines the model draws from are listed in LineSet.      *)
(***************************************************************************)
LineSet == {"", "0123", "1", "100", "Reference: A", " Loc "}

\* str.strip() on the lines of the model
Strip(l) == IF l = " Loc " THEN "Loc" ELSE l

\* a line \s* can run through: nothing but whitespace before its newline
IsBlank(l) == Strip(l) = ""

\* ^\s*(0\d{3})\s*?\n : the line is a 4-digit code starting with 0
IsCode(l) == Strip(l) \in {"0123"}

\* ^\s*1\s*?\n : the line is the single digit 1
IsOne(l) == Strip(l) = "1"

\* ^\s*(\d{2,4})\s*?\n : the line is 2 to 4 digits
IsDim(l) == Strip(l) \in {"0123", "100"}

\* lines[j].strip().lower().startswith("reference")
IsReferenceLine(l) == Strip(l) \in {"Reference: A"}

\* int(match.group(n)) on the digit lines of the model
IntOf(l) == IF Strip(l) = "0123" THEN 123 ELSE IF Strip(l) = "100" THEN 100 ELSE 0

\* The greedy \s* that follows ^ (and every \n of the pattern) also consumes
\* newlines: from line p it runs over whole blank lines up to the first line
\* with something other than whitespace on it (Len(t) + 1 at the end of text).
RECURSIVE SkipBlank(_, _)
SkipBlank(t, p) ==
    IF p > Len(t) \/ ~IsBlank(t[p]) THEN p ELSE SkipBlank(t, p + 1)

\* One attempt of the pattern at the start of line s.
MatchAt(t, s) ==
    LET c == SkipBlank(t, s)
        o == SkipBlank(t, c + 1)
        h == SkipBlank(t, o + 1)
        w == SkipBlank(t, h + 1)
    IN  [ok |-> /\ w <= Len(t)
                /\ IsCode(t[c]) /\ IsOne(t[o]) /\ IsDim(t[h]) /\ IsDim(t[w]),
         start |-> s, code |-> c, height |-> h, width |-> w]

\* finditer: the leftmost line >= p at which the pattern matches, 0 if none.
RECURSIVE FindMatch(_, _)
FindMatch(t, p) ==
    IF p > Len(t) THEN 0
    ELSE IF MatchAt(t, p).ok THEN p
    ELSE FindMatch(t, p + 1)

\* for j in range(start_idx, min(start_idx + 100, len(lines))): the first
\* line of the window that starts with "reference", 0 if there is none.
RECURSIVE FindAnchor(_, _, _)
FindAnchor(t, j, last) ==
    IF j > last THEN 0
    ELSE IF IsReferenceLine(t[j]) THEN j
    ELSE FindAnchor(t, j + 1, last)

\* The for/else over the window: the three lines before the anchor line.
Metadata(t, start) ==
    LET j == FindAnchor(t, start, Min(start + Window - 1, Len(t)))
    IN  IF j # 0 /\ j >= 4    \* 0-based: j >= 3
        THEN [reference |-> Strip(t[j - 3]),
              location  |-> Strip(t[j - 2]),
              system    |-> Strip(t[j - 1])]
        ELSE [reference |-> "", location |-> "", system |-> ""]

\* blocks.append({...})
MakeBlock(t, m) ==
    LET md == Metadata(t, m.start)
    IN  [sales_line   |-> Strip(t[m.code]),
         order_width  |-> IntOf(t[m.width]),
         order_height |-> IntOf(t[m.height]),
         reference    |-> md.reference,
         location     |-> md.location,
         system       |-> md.system]

Rep(x, n) == [k \in 1..n |-> x]

RECURSIVE SeqsUpTo(_, _)
SeqsUpTo(S, n) ==
    IF n = 0 THEN {<<>>}
    ELSE LET shorter == SeqsUpTo(S, n - 1)
         IN  shorter \cup {Append(q, x) : q \in {r \in shorter : Len(r) = n - 1}, x \in S}

\* Texts long enough for the window of 100 lines to end before the anchor line.
LongTexts ==
    { Rep("", b) \o <<"0123", "1", "100", "100">> \o Rep(" Loc ", n) \o <<"Reference: A">> :
        b \in 0..MaxLead, n \in (Window - 7)..(Window - 3) }

InitExtract ==
    /\ text \in SeqsUpTo(LineSet, MaxLines) \cup LongTexts
    /\ pos = 1
    /\ blocks = <<>>
    /\ found = <<>>
    /\ pcE = "scan"
    /\ doc = <<>> /\ entries = <<>> /\ surveyor_name = "" /\ aperture_positions = <<>>
    /\ idx = 0 /\ drawn = <<>> /\ name_drawn = <<>> /\ pcU = "idle"
    /\ df = <<>> /\ summary = <<>> /\ pcS = "idle"
    /\ uploaded = <<>> /\ fileno = 0 /\ used_names = {} /\ per_file_data = <<>>
    /\ pdf_results = <<>> /\ workbook = <<>> /\ pcR = "idle"

\* One iteration of "for match in pattern.finditer(text)".
MatchBlock ==
    /\ pcE = "scan"
    /\ FindMatch(text, pos) # 0
    /\ LET m == MatchAt(text, FindMatch(text, pos))
       IN  /\ blocks' = Append(blocks, MakeBlock(text, m))
           /\ found' = Append(found, [start |-> m.start, code |-> m.code])
           /\ pos' = m.width + 1
    /\ UNCHANGED <<text, pcE>>
    /\ UNCHANGED <<varsU, varsS, varsR>>

\* finditer is exhausted: return blocks
ReturnBlocks ==
    /\ pcE = "scan"
    /\ FindMatch(text, pos) = 0
    /\ pcE' = "done"
    /\ UNCHANGED <<text, pos, blocks, found>>
    /\ UNCHANGED <<varsU, varsS, varsR>>

NextExtract == MatchBlock \/ ReturnBlocks

(***************************************************************************)
(* update_pdf                                                              *)
(*                                                                         *)
(* A page is what update_pdf and extract_sales_blocks read of it:          *)
(*   names    the number of hits of page.search_for("Name")                *)
(*   anchors  the anchor strings printed on the page, in page order        *)
(*   blocks   the number of sales blocks in the page's text                *)
(* An optional number (None or a float) is <<>> or <<n>>.                  *)
(***************************************************************************)
MaxPages == 2

MaxNames == 2

MaxAnchors == 2

MaxBlocks == 2

\* base_offset_x = 40
BaseOffsetX == 40

\* font_size = 14
FontSize == 14

\* insert_y = inst.y0 + 2
BaseOffsetY == 2

\* abs(order_w - survey_w) > 75
Tolerance == 75

\* line_spacing = int(font_size * 1.6)
LineSpacing == (FontSize * 16) \div 10

Red == <<1, 0, 0>>

Blue == <<0, 0, 1>>

None == <<>>

AnchorTexts == {"Aperture Size", "aperture size", "ApertureSize"}

\* The three needles of update_pdf, in the order their hits are concatenated.
Needles == <<"Aperture Size", "aperture size", "ApertureSize">>

\* page.search_for ignores upper / lower case (PyMuPDF, Page.search_for:
\* "Upper / lower case is ignored"); a space of the needle needs white space
\* in the page text.
Canon(s) ==
    IF s \in {"Aperture Size", "aperture size"} THEN "APERTURE SIZE"
    ELSE IF s = "ApertureSize" THEN "APERTURESIZE"
    ELSE s

RECURSIVE Hits(_, _, _)
Hits(anchors, needle, k) ==
    IF k > Len(anchors) THEN <<>>
    ELSE (IF Canon(anchors[k]) = Canon(needle) THEN <<k>> ELSE <<>>)
         \o Hits(anchors, needle, k + 1)

\* page.search_for(needle): the occurrences on the page that match, in page order
SearchFor(page, needle) == Hits(page.anchors, needle, 1)

\* rects1 + rects2 + rects3, each paired with the page number
PagePositions(d, p) ==
    LET all == SearchFor(d[p], Needles[1]) \o SearchFor(d[p], Needles[2])
                 \o SearchFor(d[p], Needles[3])
    IN  [k \in 1..Len(all) |-> [page |-> p, rect |-> [kind |-> "hit", k |-> all[k]]]]

RECURSIVE LocatedFrom(_, _)
LocatedFrom(d, p) ==
    IF p > Len(d) THEN <<>> ELSE PagePositions(d, p) \o LocatedFrom(d, p + 1)

\* for page_num, page in enumerate(doc): ... aperture_positions.append(...)
Located(d) == LocatedFrom(d, 1)

\* if not aperture_positions and len(entries) > 0: one rectangle per entry on
\* the first page, 40 points apart
Fallback(n) ==
    [k \in 1..n |-> [page |-> 1, rect |-> [kind |-> "fallback", k |-> k]]]

AperturePositions(d, es) ==
    IF Located(d) = <<>> /\ Len(es) > 0 THEN Fallback(Len(es)) ELSE Located(d)

\* extract_editor_value on a cell of the editor: None / NaN gives None, a
\* number gives the number as a float
ExtractEditorValue(val) == IF val = None THEN None ELSE <<val[1]>>

\* COLOR LOGIC: red only inside "survey_w is not None and survey_h is not None"
RowColor(e) ==
    LET survey_w == ExtractEditorValue(e.width)
        survey_h == ExtractEditorValue(e.height)
        order_w  == ExtractEditorValue(e.order_width)
        order_h  == ExtractEditorValue(e.order_height)
    IN  IF survey_w # None /\ survey_h # None
        THEN IF \/ (order_w # None /\ Abs(order_w[1] - survey_w[1]) > Tolerance)
                \/ (order_h # None /\ Abs(order_h[1] - survey_h[1]) > Tolerance)
             THEN Red ELSE Blue
        ELSE Blue

\* draw_text_with_colored_border: nothing for an empty text, else one box
DrawTextWithColoredBorder(k, at, dy, txt, color, border, line) ==
    IF txt = "" THEN <<>>
    ELSE <<[entry |-> k, page |-> at.page, rect |-> at.rect,
            dx |-> BaseOffsetX, dy |-> dy, line |-> line,
            color |-> color, border_color |-> border]>>

\* Line 1 is f"{location_input} : {size_text}": never empty.  Line 2 is the
\* stripped remarks.
RowDrawings(k, e, at) ==
    DrawTextWithColoredBorder(k, at, BaseOffsetY, "loc : size", RowColor(e), RowColor(e), 1)
    \o DrawTextWithColoredBorder(k, at, BaseOffsetY + LineSpacing, e.remarks,
                                 RowColor(e), RowColor(e), 2)

\* The names update_pdf has bound when it builds the white box behind the
\* surveyor name, and the module's globals.
UpdatePdfLocals ==
    {"pdf_bytes", "entries", "surveyor_name", "doc", "base_offset_x", "font_size",
     "line_spacing", "page", "name_rects", "name_rect", "fontname", "text_x", "text_y"}

ModuleGlobals ==
    {"st", "fitz", "pd", "io", "re", "datetime", "np", "pattern",
     "extract_sales_blocks", "extract_editor_value", "get_fontname_for_page",
     "draw_text_with_colored_border", "update_pdf", "make_excel_safe_name",
     "build_ref_summary", "clean_dataframe_for_excel"}

\* rect = fitz.Rect(text_x-2, text_y-fontsize*1.3, ...): the names the line reads
NameBoxReads == {"fitz", "text_x", "text_y", "fontsize"}

\* the first page on which search_for("Name") has a hit, 0 if none
RECURSIVE FirstNamePage(_, _)
FirstNamePage(d, p) ==
    IF p > Len(d) THEN 0
    ELSE IF d[p].names >= 1 THEN p
    ELSE FirstNamePage(d, p + 1)

\* name_rects[1] with two hits or more, name_rects[0] with one (0-based)
NameRect(page) == IF page.names >= 2 THEN 2 ELSE 1

\* The surveyor-name section raises NameError when it reaches the white box
\* with a name it reads unbound.
NameSectionRaises(d, sname) ==
    /\ sname # ""
    /\ FirstNamePage(d, 1) # 0
    /\ ~(NameBoxReads \subseteq UpdatePdfLocals \cup ModuleGlobals)

\* the page of the k-th sales block in text order (pages are concatenated in order)
RECURSIVE BlockPage(_, _, _)
BlockPage(d, k, p) ==
    IF p > Len(d) THEN 0
    ELSE IF k <= d[p].blocks THEN p
    ELSE BlockPage(d, k - d[p].blocks, p + 1)

RECURSIVE TotalBlocks(_, _)
TotalBlocks(d, p) == IF p > Len(d) THEN 0 ELSE d[p].blocks + TotalBlocks(d, p + 1)

\* order dimensions of the model's entries
OrderDim == 1000

Dims == {None, <<OrderDim - Tolerance - 1>>, <<OrderDim + Tolerance>>, <<OrderDim + Tolerance + 1>>}

Pages == [names : 0..MaxNames, anchors : SeqsUpTo(AnchorTexts, MaxAnchors), blocks : 0..MaxBlocks]

\* documents of 1 to n pages
Docs(n) == SeqsUpTo(Pages, n) \ {<<>>}

EditedRows ==
    [width : Dims, height : Dims, order_width : {<<OrderDim>>}, order_height : {<<OrderDim>>},
     remarks : {"", "chk"}]

UntouchedRows ==
    [width : {None}, height : {None}, order_width : {<<OrderDim>>}, order_height : {<<OrderDim>>},
     remarks : {""}]

\* The entries are the rows of the blocks extracted from the same PDF, edited.
InitUpdate ==
    /\ doc \in Docs(MaxPages)
    /\ entries \in [1..TotalBlocks(doc, 1) -> IF Len(doc) = 1 THEN EditedRows ELSE UntouchedRows]
    /\ surveyor_name \in {"", "A"}
    /\ aperture_positions = <<>>
    /\ idx = 1
    /\ drawn = <<>>
    /\ name_drawn = <<>>
    /\ pcU = "name"
    /\ text = <<>> /\ pos = 0 /\ blocks = <<>> /\ found = <<>> /\ pcE = "idle"
    /\ df = <<>> /\ summary = <<>> /\ pcS = "idle"
    /\ uploaded = <<>> /\ fileno = 0 /\ used_names = {} /\ per_file_data = <<>>
    /\ pdf_results = <<>> /\ workbook = <<>> /\ pcR = "idle"

\* ===== Surveyor Name =====
SurveyorName ==
    /\ pcU = "name"
    /\ IF NameSectionRaises(doc, surveyor_name)
       THEN /\ pcU' = "error"
            /\ UNCHANGED name_drawn
       ELSE /\ pcU' = "anchors"
            /\ name_drawn' =
                 IF surveyor_name # "" /\ FirstNamePage(doc, 1) # 0
                 THEN <<[page |-> FirstNamePage(doc, 1),
                         rect |-> NameRect(doc[FirstNamePage(doc, 1)])]>>
                 ELSE <<>>
    /\ UNCHANGED <<doc, entries, surveyor_name, aperture_positions, idx, drawn>>
    /\ UNCHANGED <<varsE, varsS, varsR>>

\* ===== Find aperture anchor positions =====
FindAnchors ==
    /\ pcU = "anchors"
    /\ aperture_positions' = AperturePositions(doc, entries)
    /\ pcU' = "rows"
    /\ UNCHANGED <<doc, entries, surveyor_name, idx, drawn, name_drawn>>
    /\ UNCHANGED <<varsE, varsS, varsR>>

\* ===== Write each row =====: one iteration
WriteRow ==
    /\ pcU = "rows"
    /\ idx <= Len(entries)
    /\ idx <= Len(aperture_positions)
    /\ drawn' = drawn \o RowDrawings(idx, entries[idx], aperture_positions[idx])
    /\ idx' = idx + 1
    /\ UNCHANGED <<doc, entries, surveyor_name, aperture_positions, name_drawn, pcU>>
    /\ UNCHANGED <<varsE, varsS, varsR>>

\* the loop ends, or breaks at idx >= len(aperture_positions); doc.save; return
SaveAndReturn ==
    /\ pcU = "rows"
    /\ (idx > Len(entries) \/ idx > Len(aperture_positions))
    /\ pcU' = "returned"
    /\ UNCHANGED <<doc, entries, surveyor_name, aperture_positions, idx, drawn, name_drawn>>
    /\ UNCHANGED <<varsE, varsS, varsR>>

NextUpdate == SurveyorName \/ FindAnchors \/ WriteRow \/ SaveAndReturn

(***************************************************************************)
(* build_ref_summary                                                       *)
(*                                                                         *)
(* A row of the table is its reference and its two editable numbers.  The  *)
(* summary is the list of rows [Ref, Order, Survey], the groups in key     *)
(* order (groupby sorts its keys), then the Total row.                     *)
(***************************************************************************)
MaxRows == 3

Refs == {"", "R1", "R2"}

\* the order of the model's references as pandas sorts them
RefRank(r) == IF r = "" THEN 0 ELSE IF r = "R1" THEN 1 ELSE 2

Cells == {None, <<OrderDim>>}

\* Series.notna()
NotNa(val) == val # None

\* SurveyMask with | written for &: counts a row with one number entered
SurveyMaskEither(row) == NotNa(row.width) \/ NotNa(row.height)

\* survey_mask = df["width"].notna() & df["height"].notna()
SurveyMask(row) == NotNa(row.width) /\ NotNa(row.height)

RECURSIVE SortedRefs(_)
SortedRefs(S) ==
    IF S = {} THEN <<>>
    ELSE LET m == CHOOSE r \in S : \A q \in S : RefRank(r) <= RefRank(q)
         IN  <<m>> \o SortedRefs(S \ {m})

\* df.groupby("reference", dropna=False).size()
OrderCount(t, r) == Cardinality({k \in 1..Len(t) : t[k].reference = r})

\* df[survey_mask].groupby("reference", dropna=False).size(), 0 where the
\* reference has no surveyed row (fillna(0))
SurveyCount(t, r) ==
    Cardinality({k \in 1..Len(t) : t[k].reference = r /\ SurveyMask(t[k])})

RECURSIVE SumOf(_, _, _)
SumOf(rows, col, k) ==
    IF k > Len(rows) THEN 0 ELSE rows[k][col] + SumOf(rows, col, k + 1)

BuildRefSummary(t) ==
    LET keys == SortedRefs({t[k].reference : k \in 1..Len(t)})
        rows == [k \in 1..Len(keys) |->
                   [Ref |-> keys[k], Order |-> OrderCount(t, keys[k]),
                    Survey |-> SurveyCount(t, keys[k])]]
        total == [Ref |-> "Total", Order |-> SumOf(rows, "Order", 1),
                  Survey |-> SumOf(rows, "Survey", 1)]
    IN  Append(rows, total)

InitSummary ==
    /\ df \in SeqsUpTo([reference : Refs, width : Cells, height : Cells], MaxRows)
    /\ summary = <<>>
    /\ pcS = "edited"
    /\ text = <<>> /\ pos = 0 /\ blocks = <<>> /\ found = <<>> /\ pcE = "idle"
    /\ doc = <<>> /\ entries = <<>> /\ surveyor_name = "" /\ aperture_positions = <<>>
    /\ idx = 0 /\ drawn = <<>> /\ name_drawn = <<>> /\ pcU = "idle"
    /\ uploaded = <<>> /\ fileno = 0 /\ used_names = {} /\ per_file_data = <<>>
    /\ pdf_results = <<>> /\ workbook = <<>> /\ pcR = "idle"

\* summary_df = build_ref_summary(edited_df)
Summarise ==
    /\ pcS = "edited"
    /\ summary' = BuildRefSummary(df)
    /\ pcS' = "shown"
    /\ UNCHANGED df
    /\ UNCHANGED <<varsE, varsU, varsR>>

NextSummary == Summarise

(***************************************************************************)
(* One run of the script over the uploaded PDFs.                           *)
(*                                                                         *)
(* A file is its output name (custom_pdf_name, a string of characters),    *)
(* the surveyor name typed for it and its pages.                           *)
(***************************************************************************)
MaxFiles == 2

MaxNameLen == 2

\* [:31]
SheetNameMax == 31

NameChars == {"a", "-", "_"}

\* str.isalnum on the characters of the model
IsAlnum(c) == c \in {"a"}

\* "".join(c if c.isalnum() else "_" for c in name)[:31] or "Sheet"
MakeExcelSafeName(name) ==
    LET mapped == [k \in 1..Len(name) |-> IF IsAlnum(name[k]) THEN name[k] ELSE "_"]
        cut == SubSeq(mapped, 1, Min(SheetNameMax, Len(mapped)))
    IN  IF cut = <<>> THEN <<"S", "h", "e", "e", "t">> ELSE cut

\* names longer than a sheet name may be
LongNames == {Rep("a", SheetNameMax) \o <<c>> : c \in {"a", "_"}}

OutputNames == SeqsUpTo(NameChars, MaxNameLen) \cup LongNames

\* the PDFs of a run: without sales blocks, with a block and no "Name" on the
\* page, with a block and "Name" on the page
RunDocs ==
    { <<[names |-> n, anchors |-> <<"Aperture Size">>, blocks |-> b]>> :
        n \in 0..1, b \in 0..1 } \ { <<[names |-> 1, anchors |-> <<"Aperture Size">>, blocks |-> 0]>> }

Files == [name : OutputNames, surveyor : {"", "A"}, pages : RunDocs]

InitRun ==
    /\ uploaded \in SeqsUpTo(Files, MaxFiles)
    /\ fileno = 1
    /\ used_names = {}
    /\ per_file_data = <<>>
    /\ pdf_results = <<>>
    /\ workbook = <<>>
    /\ pcR = "loop"
    /\ text = <<>> /\ pos = 0 /\ blocks = <<>> /\ found = <<>> /\ pcE = "idle"
    /\ doc = <<>> /\ entries = <<>> /\ surveyor_name = "" /\ aperture_positions = <<>>
    /\ idx = 0 /\ drawn = <<>> /\ name_drawn = <<>> /\ pcU = "idle"
    /\ df = <<>> /\ summary = <<>> /\ pcS = "idle"

\* if custom_pdf_name in used_names: st.error("Duplicate filename..."); continue
SkipDuplicate ==
    /\ pcR = "loop"
    /\ fileno <= Len(uploaded)
    /\ uploaded[fileno].name \in used_names
    /\ fileno' = fileno + 1
    /\ UNCHANGED <<uploaded, used_names, per_file_data, pdf_results, workbook, pcR>>
    /\ UNCHANGED <<varsE, varsU, varsS>>

\* if not sales_data: st.warning(...); continue
SkipNoSales ==
    /\ pcR = "loop"
    /\ fileno <= Len(uploaded)
    /\ uploaded[fileno].name \notin used_names
    /\ TotalBlocks(uploaded[fileno].pages, 1) = 0
    /\ used_names' = used_names \cup {uploaded[fileno].name}
    /\ fileno' = fileno + 1
    /\ UNCHANGED <<uploaded, per_file_data, pdf_results, workbook, pcR>>
    /\ UNCHANGED <<varsE, varsU, varsS>>

\* the rest of the loop body: per_file_data.append, update_pdf,
\* pdf_results.append; an exception of update_pdf ends the run
ProcessPdf ==
    /\ pcR = "loop"
    /\ fileno <= Len(uploaded)
    /\ uploaded[fileno].name \notin used_names
    /\ TotalBlocks(uploaded[fileno].pages, 1) > 0
    /\ used_names' = used_names \cup {uploaded[fileno].name}
    /\ per_file_data' = Append(per_file_data,
                               [sheet_name |-> MakeExcelSafeName(uploaded[fileno].name),
                                name |-> uploaded[fileno].name, file |-> fileno])
    /\ IF NameSectionRaises(uploaded[fileno].pages, uploaded[fileno].surveyor)
       THEN /\ pcR' = "crashed"
            /\ UNCHANGED <<pdf_results, fileno>>
       ELSE /\ pdf_results' = Append(pdf_results,
                                     [name |-> uploaded[fileno].name, file |-> fileno])
            /\ fileno' = fileno + 1
            /\ UNCHANGED pcR
    /\ UNCHANGED <<uploaded, workbook>>
    /\ UNCHANGED <<varsE, varsU, varsS>>

\* df_part.to_excel(writer, sheet_name=sheet_name) for each entry of
\* per_file_data: a sheet name already in the workbook is written again
RECURSIVE WriteSheets(_, _, _)
WriteSheets(book, data, k) ==
    IF k > Len(data) THEN book
    ELSE LET at == {n \in 1..Len(book) : book[n].sheet_name = data[k].sheet_name}
         IN  IF at = {}
             THEN WriteSheets(Append(book, [sheet_name |-> data[k].sheet_name,
                                            tables |-> <<data[k].file>>]), data, k + 1)
             ELSE LET n == CHOOSE n \in at : TRUE
                  IN  WriteSheets([book EXCEPT ![n].tables = Append(@, data[k].file)],
                                  data, k + 1)

\* if per_file_data: the combined Excel file and the individual downloads
ExportExcel ==
    /\ pcR = "loop"
    /\ fileno > Len(uploaded)
    /\ per_file_data # <<>>
    /\ workbook' = WriteSheets(<<>>, per_file_data, 1)
    /\ pcR' = "done"
    /\ UNCHANGED <<uploaded, fileno, used_names, per_file_data, pdf_results>>
    /\ UNCHANGED <<varsE, varsU, varsS>>

\* nothing was processed: no download section
NothingToExport ==
    /\ pcR = "loop"
    /\ fileno > Len(uploaded)
    /\ per_file_data = <<>>
    /\ pcR' = "done"
    /\ UNCHANGED <<uploaded, fileno, used_names, per_file_data, pdf_results, workbook>>
    /\ UNCHANGED <<varsE, varsU, varsS>>

NextRun == SkipDuplicate \/ SkipNoSales \/ ProcessPdf \/ ExportExcel \/ NothingToExport

(***************************************************************************)
(* The specifications.                                                     *)
(***************************************************************************)
SpecExtract == InitExtract /\ [][NextExtract]_vars

SpecUpdate == InitUpdate /\ [][NextUpdate]_vars

SpecSummary == InitSummary /\ [][NextSummary]_vars

SpecRun == InitRun /\ [][NextRun]_vars

(***************************************************************************)
(* The claims.                                                             *)
(***************************************************************************)

\* the first lines of the runs of four consecutive lines (code, 1, height,
\* width), in text order
RECURSIVE RunsFrom(_, _)
RunsFrom(t, i) ==
    IF i + 3 > Len(t) THEN <<>>
    ELSE (IF IsCode(t[i]) /\ IsOne(t[i + 1]) /\ IsDim(t[i + 2]) /\ IsDim(t[i + 3])
          THEN <<i>> ELSE <<>>) \o RunsFrom(t, i + 1)

\* C1: every annotation update_pdf draws is red (text and border) exactly
\* when the entered width or the entered height differs from the order value
\* by more than 75, whichever of the two are entered, and blue otherwise.
C1_ColorFollowsTolerance ==
    \A n \in 1..Len(drawn) :
        LET e == entries[drawn[n].entry]
            mismatch ==
                \/ (e.width # None /\ Abs(e.order_width[1] - e.width[1]) > 75)
                \/ (e.height # None /\ Abs(e.order_height[1] - e.height[1]) > 75)
            expected == IF mismatch THEN Red ELSE Blue
        IN  drawn[n].color = expected /\ drawn[n].border_color = expected

\* C2: the returned blocks are, one to one and in text order, the runs of
\* four consecutive lines (code, 1, height, width): the k-th block is read
\* from the k-th run.
C2_BlocksAreTheRuns ==
    pcE = "done" =>
        LET runs == RunsFrom(text, 1)
        IN  /\ Len(blocks) = Len(runs)
            /\ \A k \in 1..Len(blocks) :
                 /\ found[k].code = runs[k]
                 /\ blocks[k].sales_line = Strip(text[runs[k]])
                 /\ blocks[k].order_height = IntOf(text[runs[k] + 2])
                 /\ blocks[k].order_width = IntOf(text[runs[k] + 3])

\* C3: the metadata of every block are the stripped three lines before the
\* first "reference" line among the 100 lines that begin at the block's own
\* first line (its sales line), and empty when that window has no such line
\* or fewer than three lines precede it.
C3_MetadataFromOwnWindow ==
    \A k \in 1..Len(blocks) :
        LET first == found[k].code
            j == FindAnchor(text, first, Min(first + Window - 1, Len(text)))
            has == j # 0 /\ j - 1 >= 3
        IN  /\ blocks[k].reference = (IF has THEN Strip(text[j - 3]) ELSE "")
            /\ blocks[k].location = (IF has THEN Strip(text[j - 2]) ELSE "")
            /\ blocks[k].system = (IF has THEN Strip(text[j - 1]) ELSE "")

\* C4: in the returned PDF every entry has its line 1: as many line-1
\* annotations as entries, the k-th at (x1 + 40, y0 + 2) of the k-th anchor
\* position.
C4_EveryEntryAnnotated ==
    pcU = "returned" =>
        LET line1 == {n \in 1..Len(drawn) : drawn[n].line = 1}
        IN  /\ Cardinality(line1) = Len(entries)
            /\ \A k \in 1..Len(entries) :
                 /\ k <= Len(aperture_positions)
                 /\ \E n \in line1 :
                      /\ drawn[n].entry = k
                      /\ drawn[n].page = aperture_positions[k].page
                      /\ drawn[n].rect = aperture_positions[k].rect
                      /\ drawn[n].dx = 40 /\ drawn[n].dy = 2

\* C5: the processed PDFs of a run have pairwise distinct sheet names, and
\* the exported workbook has one sheet, holding one table, per processed PDF.
C5_OneSheetPerPdf ==
    /\ \A a, b \in 1..Len(per_file_data) :
         a # b => per_file_data[a].sheet_name # per_file_data[b].sheet_name
    /\ pcR = "done" =>
         /\ Len(workbook) = Len(per_file_data)
         /\ \A n \in 1..Len(workbook) : Len(workbook[n].tables) = 1

\* C6: with a surveyor name update_pdf never ends in an error, and what it
\* returns has the name once, on the first page with "Name" (at the second
\* hit when the page has two or more), or not at all when no page has "Name".
C6_SurveyorNameWritten ==
    surveyor_name # "" =>
        /\ pcU # "error"
        /\ pcU = "returned" =>
             name_drawn =
               (IF \E p \in 1..Len(doc) : doc[p].names >= 1
                THEN LET p == CHOOSE p \in 1..Len(doc) :
                                /\ doc[p].names >= 1
                                /\ \A q \in 1..(p - 1) : doc[q].names = 0
                     IN  <<[page |-> p, rect |-> IF doc[p].names >= 2 THEN 2 ELSE 1]>>
                ELSE <<>>)

\* C7: a PDF whose output name was used by an earlier PDF of the run
\* contributes nothing; the names of pdf_results are pairwise distinct; and
\* per_file_data and pdf_results always have the same length and the same
\* output name at each index.
C7_ResultsInStep ==
    /\ \A k \in 1..Len(per_file_data) :
         \A j \in 1..(per_file_data[k].file - 1) : uploaded[j].name # per_file_data[k].name
    /\ \A k \in 1..Len(pdf_results) :
         \A j \in 1..(pdf_results[k].file - 1) : uploaded[j].name # pdf_results[k].name
    /\ \A a, b \in 1..Len(pdf_results) : a # b => pdf_results[a].name # pdf_results[b].name
    /\ Len(per_file_data) = Len(pdf_results)
    /\ \A k \in 1..Len(pdf_results) : per_file_data[k].name = pdf_results[k].name

\* C8: the summary has one row per distinct reference and a final "Total"
\* row; a reference's Order is the number of its entries, its Survey the
\* number of those with both width and height entered (Survey <= Order); the
\* Total row holds the number of entries and the number of entries with both
\* entered.
C8_SummaryCounts ==
    pcS = "shown" =>
        LET rows == 1..Len(df)
            refs == {df[k].reference : k \in rows}
            both == {k \in rows : df[k].width # None /\ df[k].height # None}
            n == Len(summary)
        IN  /\ n = Cardinality(refs) + 1
            /\ summary[n].Ref = "Total"
            /\ summary[n].Order = Len(df)
            /\ summary[n].Survey = Cardinality(both)
            /\ \A r \in refs :
                 \E i \in 1..(n - 1) :
                    /\ summary[i].Ref = r
                    /\ \A q \in 1..(n - 1) : summary[q].Ref = r => q = i
                    /\ summary[i].Order = Cardinality({k \in rows : df[k].reference = r})
                    /\ summary[i].Survey = Cardinality({k \in both : df[k].reference = r})
                    /\ summary[i].Survey <= summary[i].Order

\* C8 witness: a summarised table of three rows and two references, one row
\* with only its width entered and one with both entered.
C8_Witness ==
    /\ pcS = "shown"
    /\ Len(df) = 3
    /\ Cardinality({df[k].reference : k \in 1..Len(df)}) = 2
    /\ \E k \in 1..Len(df) : df[k].width # None /\ df[k].height = None
    /\ \E k \in 1..Len(df) : df[k].width # None /\ df[k].height # None
    /\ Len(summary) = 3

\* C9: no anchor occurrence is listed twice in aperture_positions, and no
\* two entries are annotated at the same occurrence (page and rectangle).
C9_AnchorsListedOnce ==
    /\ \A a, b \in 1..Len(aperture_positions) :
         a # b => aperture_positions[a] # aperture_positions[b]
    /\ \A a, b \in 1..Len(drawn) :
         drawn[a].entry # drawn[b].entry =>
            ~(drawn[a].page = drawn[b].page /\ drawn[a].rect = drawn[b].rect)

\* C10: when an anchor is located, every annotated entry is annotated on
\* the page its sales block was extracted from.
C10_AnnotatedOnOwnPage ==
    (\E p \in 1..Len(doc) : \E k \in 1..Len(doc[p].anchors) : doc[p].anchors[k] \in AnchorTexts) =>
        \A n \in 1..Len(drawn) : drawn[n].page = BlockPage(doc, drawn[n].entry, 1)

====
